---- MODULE Spec2Model ----
(***************************************************************************)
(* Model of the InvokeAI model installer (ldm/invoke/config/config.py):    *)
(* the resumable fetcher hf_download_with_resume, the batch driver         *)
(* download_weight_datasets / download_weights / main / postscript, and    *)
(* the registry synchronizer new_config_file_contents.                     *)
(*                                                                         *)
(* A file's content is a sequence of extents [src, off, len]: "len" bytes  *)
(* taken from byte "off" of the source "src" ("remote" is the resource     *)
(* being downloaded, "errpage" the body of an error response).  Adjacent   *)
(* extents that continue each other are kept merged, so two contents are   *)
(* equal exactly when their extent sequences are equal.                    *)
(***************************************************************************)
EXTENDS Integers, Sequences, FiniteSets, TLC

VARIABLES
    remoteSize,   \* total size n of the remote resource
    file,         \* the destination file model_dest: [exists, data]
    before,       \* the destination file as it was when the last call started
    last,         \* what the last call of hf_download_with_resume did
    prevLast,     \* what the call before it did
    calls,        \* number of calls made so far
    Datasets,     \* the catalog of installable models (INITIAL_MODELS.yaml)
    disk,         \* the registry file, its .orig sibling and new_config.tmp
    diskBefore,   \* the three files when the last pass started
    sync,         \* what the last call of update_config_file did
    prevSync,     \* what the call before it did
    passes,       \* number of synchronization passes made so far
    opt,          \* the command line: [yes_to_all, skip_sd_weights, precision]
    pc,           \* where main() is
    runMode,         \* how the models were selected
    models,       \* the selected model ids, in order
    fetched,      \* per model fetched so far: [id, cause, ret]
    successful,   \* download_weight_datasets' mapping: entries [id, out]
    errors,       \* main's set of errors
    support,      \* number of support-model downloads attempted
    summary,      \* the panel postscript printed
    auth          \* the state of authenticate(): its locals, the token cache, what it printed

fetchVars == <<remoteSize, file, before, last, prevLast, calls>>

syncVars == <<disk, diskBefore, sync, prevSync, passes>>

batchVars == <<opt, pc, runMode, models, fetched, successful, errors, support, summary>>

vars == <<fetchVars, Datasets, syncVars, batchVars, auth>>

\* ------------------------------------------------------------------ bounds

\* number of invocations of hf_download_with_resume on the destination
MaxCalls == 3

\* the catalog lists the models 1..NumModels
NumModels == 2

\* sizes of the remote resource
RemoteSizes == {3000, 5000}

\* non-success statuses a server answers with, other than 416
ErrorStatuses == {401, 404}

\* content lengths of the bodies of error responses
ErrorLengths == {500, 3000}

\* ------------------------------------------------------- program constants

\* if total < 2000
MinContentLength == 2000

\* resp.iter_content(chunk_size=1024)
ChunkSize == 1024

\* resp.status_code == 416
StatusRangeNotSatisfiable == 416

\* resp.status_code != 200
StatusOK == 200

\* ------------------------------------------------------------ file content

Min(a, b) == IF a <= b THEN a ELSE b

RECURSIVE Size(_)
Size(data) == IF data = <<>> THEN 0 ELSE Head(data).len + Size(Tail(data))

Extent(src, off, len) == [src |-> src, off |-> off, len |-> len]

\* file.write(data): the bytes of extent e appended at the end of the content
AppendBytes(data, e) ==
    IF e.len = 0 THEN data
    ELSE IF data # <<>>
            /\ data[Len(data)].src = e.src
            /\ data[Len(data)].off + data[Len(data)].len = e.off
         THEN [data EXCEPT ![Len(data)].len = @ + e.len]
         ELSE Append(data, e)

\* the content a is a prefix of the content b, byte for byte
IsPrefix(a, b) ==
    \/ a = <<>>
    \/ /\ Len(a) <= Len(b)
       /\ \A i \in 1..(Len(a) - 1) : a[i] = b[i]
       /\ a[Len(a)].src = b[Len(a)].src
       /\ a[Len(a)].off = b[Len(a)].off
       /\ a[Len(a)].len <= b[Len(a)].len

AbsentFile == [exists |-> FALSE, data |-> <<>>]

\* the whole remote resource of size n
RemoteContent(n) == <<Extent("remote", 0, n)>>

\* -------------------------------------------------- the server (requests.get)

\* the answer of a server that honours the Range header, for a resource of
\* n bytes: the whole resource with 200, its tail with 206, or 416 when the
\* range starts at or after the end
HonourResponse(req, n, errLength) ==
    IF ~req.rangeSent
    THEN [status |-> StatusOK, hasLength |-> TRUE, contentLength |-> n,
          body |-> Extent("remote", 0, n)]
    ELSE IF req.rangeStart < n
    THEN [status |-> 206, hasLength |-> TRUE,
          contentLength |-> n - req.rangeStart,
          body |-> Extent("remote", req.rangeStart, n - req.rangeStart)]
    ELSE [status |-> StatusRangeNotSatisfiable, hasLength |-> TRUE,
          contentLength |-> errLength,
          body |-> Extent("errpage", 0, errLength)]

\* resp = requests.get(url, headers=header, stream=True), for each behaviour
\* of the server; "connError" is handled by the caller (no response exists)
RequestsGet(srv, req, n) ==
    CASE srv.kind = "honour" -> HonourResponse(req, n, srv.errLength)
      [] srv.kind = "ignoreRange" ->
            [status |-> StatusOK, hasLength |-> TRUE, contentLength |-> n,
             body |-> Extent("remote", 0, n)]
      [] srv.kind = "noLength" ->
            [HonourResponse(req, n, srv.errLength) EXCEPT
                !.hasLength = FALSE, !.contentLength = 0]
      [] OTHER ->
            [status |-> srv.errStatus, hasLength |-> TRUE,
             contentLength |-> srv.errLength,
             body |-> Extent("errpage", 0, srv.errLength)]

\* ------------------------------------------------- hf_download_with_resume

\* exist_size
ExistSize(f) == IF f.exists THEN Size(f.data) ELSE 0

\* a slip: the destination is always opened for a fresh write
OpenModeAlwaysWrite(f) == "wb"

\* open_mode
OpenMode(f) == IF f.exists THEN "ab" ELSE "wb"

\* a slip: the Range header is never set
RequestWithoutRange(f) == [rangeSent |-> FALSE, rangeStart |-> 0]

\* the Range header: sent only when the destination exists
Request(f) == [rangeSent |-> f.exists, rangeStart |-> ExistSize(f)]

\* total = int(resp.headers.get("content-length", 0))
Total(resp) == IF resp.hasLength THEN resp.contentLength ELSE 0

\* a slip: 416 counts as complete only when the response has no body
AlreadyCompleteEmptyOnly(resp) ==
    resp.status = StatusRangeNotSatisfiable /\ Total(resp) = 0

\* resp.status_code == 416: complete file found
AlreadyComplete(resp) == resp.status = StatusRangeNotSatisfiable

\* resp.status_code != 200: the error message is printed (and nothing else)
StatusReported(resp) == resp.status # StatusOK

\* a slip: only a missing or zero content length is rejected
TooSmallZeroOnly(total) == total = 0

\* total < 2000
TooSmall(total) == total < MinContentLength

\* open(model_dest, open_mode)
OpenFile(f, mode) ==
    IF mode = "wb" THEN [exists |-> TRUE, data |-> <<>>]
    ELSE [exists |-> TRUE, data |-> f.data]

\* number of chunks resp.iter_content yields for a body
NumChunks(body) == (body.len + ChunkSize - 1) \div ChunkSize

\* bytes written when the stream stops after j whole chunks
WrittenAfter(body, j) == Min(j * ChunkSize, body.len)

NoCall ==
    [called |-> FALSE, server |-> "none", mkdirOK |-> TRUE,
     rangeSent |-> FALSE, rangeStart |-> 0, existSize |-> 0,
     openMode |-> "none", gotResponse |-> FALSE, status |-> 0,
     hasLength |-> FALSE, contentLength |-> 0, total |-> 0,
     reported |-> {}, opened |-> FALSE, bodySrc |-> "none", bodyOff |-> 0,
     wrote |-> 0, fail |-> "none",
     streamExc |-> FALSE, ret |-> "none"]

\* the with-block: open the file, stream the body into it
StreamBody(f, rec, resp, fail) ==
    IF fail.kind = "open"
    THEN [file |-> f,
          rec |-> [rec EXCEPT !.fail = "open", !.ret = "None",
                              !.reported = @ \cup {"exception"}]]
    ELSE LET opened == OpenFile(f, rec.openMode)
             wrote == IF fail.kind = "none" THEN resp.body.len
                      ELSE WrittenAfter(resp.body, fail.after)
             data == AppendBytes(opened.data,
                                 Extent(resp.body.src, resp.body.off, wrote))
             r == [rec EXCEPT !.opened = TRUE, !.bodySrc = resp.body.src,
                              !.bodyOff = resp.body.off, !.wrote = wrote,
                              !.fail = fail.kind]
         IN [file |-> [exists |-> TRUE, data |-> data],
             rec |-> CASE fail.kind = "none" -> [r EXCEPT !.ret = "path"]
                       [] fail.kind = "exception" ->
                            [r EXCEPT !.ret = "None", !.streamExc = TRUE,
                                      !.reported = @ \cup {"exception"}]
                       [] OTHER -> [r EXCEPT !.ret = "interrupt"]]

\* hf_download_with_resume(repo_id, model_dir, model_name, access_token) on
\* the destination file f, with the environment env = [mkdirOK, srv, fail]
\* and a remote resource of n bytes: the file afterwards and what happened
HfDownloadWithResume(f, env, n) ==
    IF ~env.mkdirOK
    THEN [file |-> f,
          rec |-> [NoCall EXCEPT !.called = TRUE, !.mkdirOK = FALSE,
                                 !.ret = "raise"]]
    ELSE LET req == Request(f)
             r0 == [NoCall EXCEPT !.called = TRUE, !.server = env.srv.kind,
                                  !.rangeSent = req.rangeSent,
                                  !.rangeStart = req.rangeStart,
                                  !.existSize = ExistSize(f),
                                  !.openMode = OpenMode(f)]
         IN IF env.srv.kind = "connError"
            THEN [file |-> f, rec |-> [r0 EXCEPT !.ret = "raise"]]
            ELSE LET resp == RequestsGet(env.srv, req, n)
                     total == Total(resp)
                     r1 == [r0 EXCEPT !.gotResponse = TRUE,
                                      !.status = resp.status,
                                      !.hasLength = resp.hasLength,
                                      !.contentLength = resp.contentLength,
                                      !.total = total]
                 IN IF AlreadyComplete(resp)
                    THEN [file |-> f, rec |-> [r1 EXCEPT !.ret = "path"]]
                    ELSE LET r2 == IF StatusReported(resp)
                                   THEN [r1 EXCEPT !.reported = {"status"}]
                                   ELSE r1
                         IN IF TooSmall(total)
                            THEN [file |-> f,
                                  rec |-> [r2 EXCEPT
                                     !.ret = "None",
                                     !.reported = @ \cup {"tooSmall"}]]
                            ELSE StreamBody(f, r2, resp, env.fail)

\* ----------------------------------------------------------- the catalog

ModelIds == 1..NumModels

\* a registry stanza the user wrote for a model the catalog does not list
ForeignId == 0

\* the shapes of the catalog's entries: a checkpoint (with a weights file,
\* dimensions and a VAE file), a diffusers pipeline, and a diffusers
\* pipeline with a VAE repository
Shapes ==
    {[format |-> "ckpt", file |-> TRUE, dims |-> TRUE, vae |-> "file"],
     [format |-> "diffusers", file |-> FALSE, dims |-> FALSE, vae |-> "none"],
     [format |-> "diffusers", file |-> FALSE, dims |-> FALSE, vae |-> "repo"]}

Descriptors == {[shape |-> sh, recommended |-> r] : sh \in Shapes, r \in BOOLEAN}

\* what a successful fetch of a model returns: the path of the checkpoint
\* file, or the loaded pipeline
SuccessValue(mod) == IF mod.shape.format = "ckpt" THEN "path" ELSE "model"

\* ------------------------------------------------- registry documents

\* a document is a sequence of entries [id, stanza] in file order; a stanza
\* maps field names to values: "cat" is the value the catalog gives the field
\* for that model, "old" a value the file held before, "path" the weights
\* path computed from the outcome
Entry(id, stanza) == [id |-> id, stanza |-> stanza]

EmptyStanza == [k \in {} |-> "none"]

SetField(st, key, value) ==
    [k \in DOMAIN st \cup {key} |-> IF k = key THEN value ELSE st[k]]

\* stanza.pop(key, None)
PopField(st, key) == [k \in DOMAIN st \ {key} |-> st[k]]

DocIds(conf) == {conf[i].id : i \in 1..Len(conf)}

\* conf[model]
StanzaOf(conf, id) ==
    conf[CHOOSE i \in 1..Len(conf) : conf[i].id = id].stanza

\* a slip: the stanza is added at the end even when the id has one
PutStanzaAppend(conf, id, st) == Append(conf, Entry(id, st))

\* conf[model] = stanza
PutStanza(conf, id, st) ==
    IF id \in DocIds(conf)
    THEN [i \in 1..Len(conf) |->
             IF conf[i].id = id THEN Entry(id, st) ELSE conf[i]]
    ELSE Append(conf, Entry(id, st))

\* ids of the stanzas with default = true
Defaults(conf) ==
    {conf[i].id : i \in {j \in 1..Len(conf) :
        "default" \in DOMAIN conf[j].stanza /\ conf[j].stanza["default"] = "true"}}

\* the files: text is what was written, whole is false for a file whose
\* writing stopped half way
AbsentDoc == [exists |-> FALSE, preamble |-> FALSE, doc |-> <<>>, whole |-> TRUE]

\* Config_preamble followed by OmegaConf.to_yaml(conf)
ToYaml(conf) == [exists |-> TRUE, preamble |-> TRUE, doc |-> conf, whole |-> TRUE]

\* OmegaConf.load(config_file): the comment block is dropped
Load(f) == f.doc

\* ---------------------------------------------- new_config_file_contents

\* a slip: every stanza of the pass is made the default
NeedsDefaultAlways(default_selected) == TRUE

\* if not default_selected
NeedsDefault(default_selected) == ~default_selected

\* the stanza of one model of successfully_downloaded, built from the catalog
\* entry mod and the outcome out; os.path.relpath raises on a None path
BuildStanza(stanza0, mod, out, default_selected) ==
    LET s1 == SetField(SetField(SetField(stanza0,
                  "description", "cat"), "repo_id", "cat"), "format", "cat")
        s2 == IF mod.shape.dims
              THEN SetField(SetField(s1, "width", "cat"), "height", "cat")
              ELSE s1
        raised == mod.shape.file /\ out = "None"
        s3 == IF mod.shape.file
              THEN SetField(SetField(s2, "weights", out), "config", "cat")
              ELSE s2
        s4 == IF mod.shape.vae # "none" THEN SetField(s3, "vae", "cat") ELSE s3
        s5 == PopField(s4, "default")
        s6 == IF NeedsDefault(default_selected)
              THEN SetField(s5, "default", "true")
              ELSE s5
    IN [raised |-> raised, stanza |-> s6]

\* the loop over successfully_downloaded, from its i-th entry on
RECURSIVE ConfigLoop(_, _, _, _, _)
ConfigLoop(conf, outcomes, catalog, i, default_selected) ==
    IF i > Len(outcomes) THEN [raised |-> FALSE, conf |-> conf]
    ELSE LET model == outcomes[i].id
             stanza0 == IF model \in DocIds(conf) THEN StanzaOf(conf, model)
                        ELSE EmptyStanza
             b == BuildStanza(stanza0, catalog[model], outcomes[i].out,
                              default_selected)
         IN IF b.raised THEN [raised |-> TRUE, conf |-> conf]
            ELSE ConfigLoop(PutStanza(conf, model, b.stanza), outcomes,
                            catalog, i + 1, TRUE)

\* a slip: the pass always starts from an empty document
NewConfigFileContentsFresh(cfg, outcomes, catalog) ==
    ConfigLoop(<<>>, outcomes, catalog, 1, FALSE)

\* new_config_file_contents(successfully_downloaded): the document to write,
\* or the exception raised
NewConfigFileContents(cfg, outcomes, catalog) ==
    LET conf == IF cfg.exists THEN Load(cfg) ELSE <<>>
    IN ConfigLoop(conf, outcomes, catalog, 1, FALSE)

\* ------------------------------------------------------ update_config_file

WriteFailures == {"none", "backup", "open", "write", "replace"}

\* the statements of update_config_file before which (for "midwrite":
\* within which) the process can be stopped by the user or the system
Interruptions ==
    {"stop:backup", "stop:open", "stop:write", "stop:midwrite", "stop:replace"}

NoSync ==
    [ran |-> FALSE, outcomes |-> <<>>, raised |-> FALSE, fail |-> "none",
     reported |-> FALSE, created |-> FALSE, interrupted |-> FALSE]

\* a slip: the old registry file is removed instead of being kept as .orig
BackupDrop(d) == [d EXCEPT !.cfg = AbsentDoc]

\* os.replace(config_file, f"{config_file}.orig")
Backup(d) == [d EXCEPT !.orig = d.cfg, !.cfg = AbsentDoc]

\* new_config.tmp just after open(tmpfile, "w")
OpenedTmp == [exists |-> TRUE, preamble |-> FALSE, doc |-> <<>>, whole |-> FALSE]

\* new_config.tmp when the preamble is written and the document is not
PartialTmp == [ToYaml(<<>>) EXCEPT !.whole = FALSE]

\* update_config_file(successfully_downloaded) on the files d, where the
\* I/O operation named by fail (if it is reached) raises OSError, or the
\* process is stopped at the point named by fail
UpdateConfigFile(d, outcomes, catalog, fail) ==
    LET yaml == NewConfigFileContents(d.cfg, outcomes, catalog)
        rec == [NoSync EXCEPT !.ran = TRUE, !.outcomes = outcomes]
        failed(dd, f) == [disk |-> dd,
                          rec |-> [rec EXCEPT !.fail = f, !.reported = TRUE]]
        stopped(dd) == [disk |-> dd,
                        rec |-> [rec EXCEPT !.fail = fail,
                                            !.interrupted = TRUE]]
        d1 == IF d.cfg.exists THEN Backup(d) ELSE d
        d3 == [d1 EXCEPT !.tmp = ToYaml(yaml.conf)]
    IN IF yaml.raised
       THEN [disk |-> d, rec |-> [rec EXCEPT !.raised = TRUE]]
       ELSE IF fail = "stop:backup" THEN stopped(d)
       ELSE IF d.cfg.exists /\ fail = "backup" THEN failed(d, "backup")
       ELSE IF fail = "stop:open" THEN stopped(d1)
       ELSE IF fail = "open" THEN failed(d1, "open")
       ELSE IF fail = "stop:write"
       THEN stopped([d1 EXCEPT !.tmp = OpenedTmp])
       ELSE IF fail = "stop:midwrite"
       THEN stopped([d1 EXCEPT !.tmp = PartialTmp])
       ELSE IF fail = "write"
       THEN failed([d1 EXCEPT !.tmp = PartialTmp], "write")
       ELSE IF fail = "stop:replace" THEN stopped(d3)
       ELSE IF fail = "replace" THEN failed(d3, "replace")
       ELSE [disk |-> [d3 EXCEPT !.cfg = d3.tmp, !.tmp = AbsentDoc],
             rec |-> [rec EXCEPT !.created = TRUE]]

\* ------------------------------------------ passes over the registry file

RECURSIVE SubSeqs(_)
\* the subsequences of a sequence
SubSeqs(q) ==
    IF q = <<>> THEN {<<>>}
    ELSE LET rest == SubSeqs(Tail(q))
         IN rest \cup {<<Head(q)>> \o r : r \in rest}

\* the order of the catalog's keys
CatalogOrder == [i \in 1..NumModels |-> i]

\* the mappings download_weight_datasets can return: the selected models in
\* catalog order, each with its success value or None
OutcomeMaps(catalog) ==
    UNION {
        {[i \in 1..Len(ids) |-> [id |-> ids[i], out |-> o[i]]] :
            o \in [1..Len(ids) -> {"ok", "None"}]}
        : ids \in SubSeqs(CatalogOrder)}

\* the success value in place of "ok"
Outcomes(m, catalog) ==
    [i \in 1..Len(m) |->
        [id |-> m[i].id,
         out |-> IF m[i].out = "ok" THEN SuccessValue(catalog[m[i].id])
                 ELSE "None"]]

OldStanza == SetField(SetField(EmptyStanza, "description", "old"), "note", "old")

\* the registry files a run can find: none, or one written or edited before
InitialDocs ==
    {<<>>,
     <<Entry(ForeignId, SetField(OldStanza, "default", "true"))>>,
     <<Entry(1, SetField(OldStanza, "default", "true")), Entry(2, OldStanza)>>,
     <<Entry(2, OldStanza), Entry(ForeignId, OldStanza)>>}

\* authenticate() has not been called
NoAuth ==
    [pc |-> "idle", yes_to_all |-> FALSE, hubUp |-> TRUE, valid |-> {},
     env |-> <<>>, cacheAtStart |-> "None", cache |-> "None", ev |-> 0,
     access_token |-> "None", token_found |-> FALSE, printed |-> {},
     envOk |-> {}, failed |-> {}, ret |-> "none"]

AuthIdle == auth = NoAuth

BatchIdle ==
    /\ opt = [yes_to_all |-> FALSE, skip_sd_weights |-> FALSE,
              precision |-> "float32"]
    /\ pc = "idle"
    /\ runMode = "none"
    /\ models = <<>>
    /\ fetched = <<>>
    /\ successful = <<>>
    /\ errors = {}
    /\ support = 0
    /\ summary = "none"

FetchIdle ==
    /\ remoteSize = 0
    /\ file = AbsentFile
    /\ before = AbsentFile
    /\ last = NoCall
    /\ prevLast = NoCall
    /\ calls = 0

InitDisk ==
    \E doc \in InitialDocs :
        disk = [cfg |-> IF doc = <<>> THEN AbsentDoc ELSE ToYaml(doc),
                orig |-> AbsentDoc, tmp |-> AbsentDoc]

InitSync ==
    /\ FetchIdle
    /\ BatchIdle
    /\ AuthIdle
    /\ Datasets \in [ModelIds -> {d \in Descriptors : d.recommended}]
    /\ InitDisk
    /\ diskBefore = disk
    /\ sync = NoSync
    /\ prevSync = NoSync
    /\ passes = 0

\* one call of update_config_file; the registry is synchronized twice in a
\* row, the second pass finding the files the first one left
Synchronize ==
    /\ passes < 2
    /\ \E m \in OutcomeMaps(Datasets), fail \in WriteFailures :
          LET res == UpdateConfigFile(disk, Outcomes(m, Datasets), Datasets, fail)
          IN /\ disk' = res.disk
             /\ sync' = res.rec
    /\ diskBefore' = disk
    /\ prevSync' = sync
    /\ passes' = passes + 1
    /\ UNCHANGED <<Datasets, fetchVars, batchVars, auth>>

\* one call of update_config_file during which the process is stopped
SynchronizeInterrupted ==
    /\ passes < 2
    /\ \E m \in OutcomeMaps(Datasets), fail \in Interruptions :
          LET res == UpdateConfigFile(disk, Outcomes(m, Datasets), Datasets, fail)
          IN /\ disk' = res.disk
             /\ sync' = res.rec
    /\ diskBefore' = disk
    /\ prevSync' = sync
    /\ passes' = passes + 1
    /\ UNCHANGED <<Datasets, fetchVars, batchVars, auth>>

SyncIdle ==
    /\ disk = [cfg |-> AbsentDoc, orig |-> AbsentDoc, tmp |-> AbsentDoc]
    /\ diskBefore = disk
    /\ sync = NoSync
    /\ prevSync = NoSync
    /\ passes = 0

NextSync == Synchronize

SpecSync == InitSync /\ [][NextSync]_vars

NextAtomic == Synchronize \/ SynchronizeInterrupted

\* the passes of SpecSync, with the process stopped in some of them
SpecAtomic == InitSync /\ [][NextAtomic]_vars

\* --------------------------------------------- repeated calls on one file

\* the most chunks any body of the model is streamed in
MaxChunks ==
    LET m == CHOOSE x \in RemoteSizes \cup ErrorLengths :
                 \A y \in RemoteSizes \cup ErrorLengths : y <= x
    IN (m + ChunkSize - 1) \div ChunkSize

Servers ==
    {[kind |-> k, errStatus |-> 0, errLength |-> l] :
        k \in {"honour", "noLength"}, l \in ErrorLengths}
    \cup {[kind |-> k, errStatus |-> 0, errLength |-> 0] :
        k \in {"ignoreRange", "connError"}}
    \cup {[kind |-> "error", errStatus |-> s, errLength |-> l] :
        s \in ErrorStatuses, l \in ErrorLengths}

FailPoints ==
    {[kind |-> "none", after |-> 0], [kind |-> "open", after |-> 0]}
    \cup {[kind |-> k, after |-> j] :
        k \in {"exception", "interrupt"}, j \in 0..(MaxChunks - 1)}

\* the stream of this call can stop where fail says
FailReachable(f, srv, fail, n) ==
    \/ fail.kind \in {"none", "open"}
    \/ /\ srv.kind # "connError"
       /\ fail.after < NumChunks(RequestsGet(srv, Request(f), n).body)

InitFetch ==
    /\ Datasets = [id \in ModelIds |-> CHOOSE d \in Descriptors : TRUE]
    /\ SyncIdle
    /\ BatchIdle
    /\ AuthIdle
    /\ remoteSize \in RemoteSizes
    /\ file = AbsentFile
    /\ before = AbsentFile
    /\ last = NoCall
    /\ prevLast = NoCall
    /\ calls = 0

\* one call of hf_download_with_resume on the destination
Download ==
    /\ calls < MaxCalls
    /\ \E mk \in BOOLEAN, srv \in Servers, fail \in FailPoints :
          /\ FailReachable(file, srv, fail, remoteSize)
          /\ LET res == HfDownloadWithResume(
                            file, [mkdirOK |-> mk, srv |-> srv, fail |-> fail],
                            remoteSize)
             IN /\ file' = res.file
                /\ last' = res.rec
    /\ before' = file
    /\ prevLast' = last
    /\ calls' = calls + 1
    /\ UNCHANGED <<remoteSize, Datasets, syncVars, batchVars, auth>>

NextFetch == Download

SpecFetch == InitFetch /\ [][NextFetch]_vars

\* ------------------------------------------------- _download_repo_or_file

\* what can happen to one call of download_from_hf
AttemptOutcomes == {"ok", "OSError", "other", "interrupt"}

\* precision: full with --full-precision, else what the device supports
Precisions == {"float16", "float32"}

\* extra_arg_list: two attempts for half precision, one otherwise
NumAttempts(precision) == IF precision = "float16" THEN 2 ELSE 1

\* _download_diffusion_weights: the loop over extra_arg_list from its i-th
\* entry on; OSError is printed and swallowed, anything else propagates
RECURSIVE DiffusionLoop(_, _, _)
DiffusionLoop(precision, outs, i) ==
    IF i > NumAttempts(precision) THEN "None"
    ELSE CASE outs[i] = "ok" -> "model"
           [] outs[i] = "OSError" -> DiffusionLoop(precision, outs, i + 1)
           [] outs[i] = "other" -> "raise"
           [] OTHER -> "interrupt"

DownloadDiffusionWeights(precision, outs) == DiffusionLoop(precision, outs, 1)

\* why the fetch of a checkpoint file did not go through, "none" if it did
CauseOf(env, rec) ==
    IF ~env.mkdirOK THEN "mkdir"
    ELSE IF env.srv.kind = "connError" THEN "connect"
    ELSE IF env.srv.kind = "error" THEN "status"
    ELSE IF env.srv.kind = "noLength" THEN "noLength"
    ELSE rec.fail

\* _download_repo_or_file(Datasets[mod], access_token, precision): what it
\* returns ("raise" and "interrupt" for an exception that propagates) and why
DownloadRepoOrFile(mod, env, precision, n) ==
    IF mod.shape.format = "ckpt"
    THEN LET r == HfDownloadWithResume(AbsentFile, env.http, n)
         IN [ret |-> r.rec.ret, cause |-> CauseOf(env.http, r.rec)]
    ELSE LET main == DownloadDiffusionWeights(precision, env.main)
             vae == IF mod.shape.vae = "repo"
                    THEN DownloadDiffusionWeights(precision, env.vae)
                    ELSE "model"
         IN IF main \in {"raise", "interrupt"}
            THEN [ret |-> main, cause |-> "hub"]
            ELSE IF vae \in {"raise", "interrupt"}
            THEN [ret |-> vae, cause |-> "hubVae"]
            ELSE [ret |-> main,
                  cause |-> IF main = "None" THEN "hub"
                            ELSE IF vae = "None" THEN "hubVae" ELSE "none"]

\* the environments of one fetch
HttpEnvs(n) ==
    {e \in [mkdirOK : BOOLEAN, srv : Servers, fail : FailPoints] :
        FailReachable(AbsentFile, e.srv, e.fail, n)}

AttemptSeqs == [1..2 -> AttemptOutcomes]

CleanHttp ==
    [mkdirOK |-> TRUE,
     srv |-> [kind |-> "ignoreRange", errStatus |-> 0, errLength |-> 0],
     fail |-> [kind |-> "none", after |-> 0]]

FetchEnvs(mod, n) ==
    IF mod.shape.format = "ckpt"
    THEN {[http |-> h, main |-> <<"ok", "ok">>, vae |-> <<"ok", "ok">>] :
             h \in HttpEnvs(n)}
    ELSE {[http |-> CleanHttp, main |-> a, vae |-> v] :
             a \in AttemptSeqs,
             v \in IF mod.shape.vae = "repo" THEN AttemptSeqs
                   ELSE {<<"ok", "ok">>}}

\* ------------------------------------------------------------------ main

\* recommended_datasets()
RecommendedDatasets(catalog) ==
    SelectSeq(CatalogOrder, LAMBDA id : catalog[id].recommended)

\* all_datasets()
AllDatasets == CatalogOrder

\* the support models main downloads after the weights, in order; guarded
\* is true for those whose download catches its own exceptions
SupportModels ==
    <<[name |-> "bert", guarded |-> FALSE],
      [name |-> "clip", guarded |-> FALSE],
      [name |-> "realesrgan", guarded |-> TRUE],
      [name |-> "gfpgan", guarded |-> TRUE],
      [name |-> "codeformer", guarded |-> TRUE],
      [name |-> "clipseg", guarded |-> TRUE],
      [name |-> "safety_checker", guarded |-> FALSE]>>

\* any(errors): None is falsy, the message is not
AnyErrors(errs) == \E e \in errs : e # "None"

\* postscript(errors)
PostscriptTitle(errs) == IF ~AnyErrors(errs) THEN "success" ELSE "errors"

\* what download_weights returns after update_config_file
WeightsResult(succ, mods) ==
    IF Len(succ) < Len(mods) THEN "message" ELSE "None"

InitBatch ==
    /\ file = AbsentFile
    /\ before = AbsentFile
    /\ last = NoCall
    /\ prevLast = NoCall
    /\ calls = 0
    /\ remoteSize = CHOOSE n \in RemoteSizes : \A k \in RemoteSizes : n <= k
    /\ Datasets \in [ModelIds -> Descriptors]
    /\ \E doc \in {<<>>, <<Entry(1, SetField(OldStanza, "default", "true")),
                            Entry(ForeignId, OldStanza)>>} :
          disk = [cfg |-> IF doc = <<>> THEN AbsentDoc ELSE ToYaml(doc),
                  orig |-> AbsentDoc, tmp |-> AbsentDoc]
    /\ diskBefore = disk
    /\ sync = NoSync
    /\ prevSync = NoSync
    /\ passes = 0
    /\ AuthIdle
    /\ opt \in [yes_to_all : BOOLEAN, skip_sd_weights : BOOLEAN,
                precision : {"unset"}]
    /\ pc = "main"
    /\ runMode = "none"
    /\ models = <<>>
    /\ fetched = <<>>
    /\ successful = <<>>
    /\ errors = {}
    /\ support = 0
    /\ summary = "none"

\* main: --skip-sd-weights (or --no-interactive)
SkipWeights ==
    /\ pc = "main" /\ opt.skip_sd_weights
    /\ pc' = "support"
    /\ runMode' = "skip_sd_weights"
    /\ UNCHANGED <<opt, models, fetched, successful, errors, support, summary>>
    /\ UNCHANGED <<fetchVars, Datasets, syncVars, auth>>

\* download_weights with --yes: the precision, the recommended models; with none of them
\* recommended the function goes on to read the unbound name choice
StartYes ==
    /\ pc = "main" /\ ~opt.skip_sd_weights /\ opt.yes_to_all
    /\ models' = RecommendedDatasets(Datasets)
    /\ runMode' = "yes"
    /\ pc' = IF Len(models') > 0 THEN "batch" ELSE "failed"
    /\ \E p \in Precisions : opt' = [opt EXCEPT !.precision = p]
    /\ UNCHANGED <<fetched, successful, errors, support, summary>>
    /\ UNCHANGED <<fetchVars, Datasets, syncVars, auth>>

\* download_weights, interactive: the user's choice and, for a customized
\* list, the selection, whether it is confirmed, and the answer to "Quit?"
StartInteractive ==
    /\ pc = "main" /\ ~opt.skip_sd_weights /\ ~opt.yes_to_all
    /\ \E choice \in {"recommended", "all", "customized", "skip"},
          sel \in SubSeqs(CatalogOrder), ok \in BOOLEAN, quit \in BOOLEAN :
          /\ runMode' = choice
          /\ CASE choice = "recommended" ->
                    /\ models' = RecommendedDatasets(Datasets)
                    /\ pc' = "batch"
                    /\ UNCHANGED errors
               [] choice = "all" ->
                    /\ models' = AllDatasets
                    /\ pc' = "batch"
                    /\ UNCHANGED errors
               [] choice = "customized" ->
                    /\ models' = IF ok THEN sel ELSE <<>>
                    /\ pc' = IF ok THEN "batch"
                             ELSE IF quit THEN "exit" ELSE "failed"
                    /\ UNCHANGED errors
               [] OTHER ->
                    /\ models' = <<>>
                    /\ pc' = "support"
                    /\ errors' = errors \cup {"None"}
    /\ \E p \in Precisions : opt' = [opt EXCEPT !.precision = p]
    /\ UNCHANGED <<fetched, successful, support, summary>>
    /\ UNCHANGED <<fetchVars, Datasets, syncVars, auth>>

\* download_weight_datasets: one iteration of the loop over models.keys()
FetchNext ==
    /\ pc = "batch" /\ Len(fetched) < Len(models)
    /\ LET mod == models[Len(fetched) + 1]
       IN \E env \in FetchEnvs(Datasets[mod], remoteSize) :
             LET r == DownloadRepoOrFile(Datasets[mod], env, opt.precision,
                                         remoteSize)
             IN /\ fetched' = Append(fetched,
                        [id |-> mod, cause |-> r.cause, ret |-> r.ret])
                /\ CASE r.ret = "raise" ->
                          pc' = "failed" /\ UNCHANGED successful
                     [] r.ret = "interrupt" ->
                          pc' = "goodbye" /\ UNCHANGED successful
                     [] OTHER ->
                          /\ pc' = "batch"
                          /\ successful' = Append(successful,
                                               [id |-> mod, out |-> r.ret])
    /\ UNCHANGED <<opt, runMode, models, errors, support, summary>>
    /\ UNCHANGED <<fetchVars, Datasets, syncVars, auth>>

\* download_weights after the loop: update_config_file and the return value,
\* which main adds to errors; with --yes the call passes two arguments to
\* update_config_file, which takes one
UpdateConfig ==
    /\ pc = "batch" /\ Len(fetched) = Len(models)
    /\ IF runMode = "yes"
       THEN /\ pc' = "failed"
            /\ UNCHANGED <<syncVars, errors>>
       ELSE \E fail \in WriteFailures \cup Interruptions :
               LET res == UpdateConfigFile(disk, successful, Datasets, fail)
               IN /\ disk' = res.disk
                  /\ sync' = res.rec
                  /\ diskBefore' = disk
                  /\ prevSync' = sync
                  /\ passes' = passes + 1
                  /\ IF res.rec.raised
                     THEN pc' = "failed" /\ UNCHANGED errors
                     ELSE IF res.rec.interrupted
                     THEN pc' = "goodbye" /\ UNCHANGED errors
                     ELSE /\ pc' = "support"
                          /\ errors' = errors \cup
                                 {WeightsResult(successful, models)}
    /\ UNCHANGED <<opt, runMode, models, fetched, successful, support, summary>>
    /\ UNCHANGED <<fetchVars, Datasets, auth>>

\* main: the next support-model download
SupportDownload ==
    /\ pc = "support" /\ support < Len(SupportModels)
    /\ \E out \in {"ok", "error", "interrupt"} :
          /\ support' = support + 1
          /\ pc' = CASE out = "interrupt" -> "goodbye"
                     [] out = "error" /\ ~SupportModels[support + 1].guarded ->
                            "failed"
                     [] OTHER -> "support"
    /\ UNCHANGED <<opt, runMode, models, fetched, successful, errors, summary>>
    /\ UNCHANGED <<fetchVars, Datasets, syncVars, auth>>

\* main: postscript(errors=errors)
Postscript ==
    /\ pc = "support" /\ support = Len(SupportModels)
    /\ summary' = PostscriptTitle(errors)
    /\ pc' = "done"
    /\ UNCHANGED <<opt, runMode, models, fetched, successful, errors, support>>
    /\ UNCHANGED <<fetchVars, Datasets, syncVars, auth>>

NextBatch ==
    \/ SkipWeights
    \/ StartYes
    \/ StartInteractive
    \/ FetchNext
    \/ UpdateConfig
    \/ SupportDownload
    \/ Postscript

SpecBatch == InitBatch /\ [][NextBatch]_vars

\* ------------------------------------------------------------ authenticate

\* the tokens of the model
Tokens == {"tokA", "tokB"}

\* hf_envvars
EnvVars == <<"HUGGING_FACE_HUB_TOKEN", "HUGGINGFACE_TOKEN">>

\* what an environment variable can hold: nothing, the empty string, a token
EnvValues == Tokens \cup {"unset", ""}

\* os.getenv(ev)
Getenv(env, i) == IF env[i] = "unset" THEN "None" ELSE env[i]

\* the truth value Python gives to a token, to "" and to None
Truthy(v) == v \notin {"None", ""}

\* HfLogin(access_token): hf_hub_login accepts the token, raises ValueError
\* for an invalid one, or raises another exception when the hub is unreachable
HfLogin(a, tok) ==
    IF ~a.hubUp THEN "error" ELSE IF tok \in a.valid THEN "ok" ELSE "ValueError"

\* where authenticate goes after looking for a token: the prompt, or the end
AfterLookup(a) == IF a.yes_to_all THEN "report" ELSE "prompt"

InitAuth ==
    /\ FetchIdle
    /\ SyncIdle
    /\ BatchIdle
    /\ Datasets = [id \in ModelIds |-> CHOOSE d \in Descriptors : TRUE]
    /\ \E yes \in BOOLEAN, up \in BOOLEAN, valid \in SUBSET Tokens,
          env \in [1..Len(EnvVars) -> EnvValues],
          cached \in Tokens \cup {"None"} :
          auth = [NoAuth EXCEPT !.pc = "start", !.yes_to_all = yes,
                                !.hubUp = up, !.valid = valid, !.env = env,
                                !.cacheAtStart = cached, !.cache = cached]

\* authenticate: access_token := HfFolder.get_token() and, when the cache
\* holds a token, the login with it
AuthCheckCache ==
    /\ auth.pc = "start"
    /\ LET tok == auth.cache
           a == [auth EXCEPT !.access_token = tok]
       IN auth' =
            IF ~Truthy(tok)
            THEN [a EXCEPT !.printed = @ \cup {"cache:notfound"},
                           !.pc = "env", !.ev = 1]
            ELSE CASE HfLogin(auth, tok) = "ok" ->
                        [a EXCEPT !.printed = @ \cup {"cache:found"},
                                  !.token_found = TRUE,
                                  !.pc = AfterLookup(auth)]
                   [] HfLogin(auth, tok) = "ValueError" ->
                        [a EXCEPT !.printed = @ \cup {"cache:found",
                                                       "cache:invalid"},
                                  !.failed = @ \cup {tok},
                                  !.cache = "None",
                                  !.pc = AfterLookup(auth)]
                   [] OTHER ->
                        [a EXCEPT !.printed = @ \cup {"cache:found"},
                                  !.pc = "raised"]
    /\ UNCHANGED <<fetchVars, Datasets, syncVars, batchVars>>

\* authenticate: one iteration of the loop over hf_envvars
AuthEnvVar ==
    /\ auth.pc = "env"
    /\ LET tok == Getenv(auth.env, auth.ev)
           nextpc == IF auth.ev = Len(EnvVars) THEN AfterLookup(auth)
                     ELSE "env"
           a == [auth EXCEPT !.access_token = tok, !.ev = @ + 1,
                             !.pc = nextpc]
       IN auth' =
            IF ~Truthy(tok)
            THEN [a EXCEPT !.printed = @ \cup {"env:notfound"}]
            ELSE CASE HfLogin(auth, tok) = "ok" ->
                        [a EXCEPT !.printed = @ \cup {"env:found"},
                                  !.envOk = @ \cup {tok},
                                  !.cache = tok]
                   [] HfLogin(auth, tok) = "ValueError" ->
                        [a EXCEPT !.printed = @ \cup {"env:found",
                                                       "env:invalid"},
                                  !.failed = @ \cup {tok}]
                   [] OTHER ->
                        [a EXCEPT !.printed = @ \cup {"env:found"},
                                  !.pc = "raised"]
    /\ UNCHANGED <<fetchVars, Datasets, syncVars, batchVars>>

\* authenticate, interactive: one iteration of the prompt loop; the user
\* enters a token or nothing and, after a failed login, answers "try again?"
AuthPrompt ==
    /\ auth.pc = "prompt"
    /\ \E input \in Tokens \cup {"EOF"}, again \in BOOLEAN :
          auth' =
            IF input = "EOF"
            THEN [auth EXCEPT !.printed = @ \cup {"prompt:none"},
                              !.pc = "report"]
            ELSE CASE HfLogin(auth, input) = "ok" ->
                        [auth EXCEPT !.access_token = input,
                                     !.cache = input,
                                     !.pc = "report"]
                   [] HfLogin(auth, input) = "ValueError" ->
                        [auth EXCEPT !.access_token = input,
                                     !.failed = @ \cup {input},
                                     !.printed = @ \cup
                                        (IF again THEN {} ELSE {"prompt:rerun"}),
                                     !.pc = IF again THEN "prompt"
                                            ELSE "report"]
                   [] OTHER ->
                        [auth EXCEPT !.access_token = input, !.pc = "raised"]
    /\ UNCHANGED <<fetchVars, Datasets, syncVars, batchVars>>

\* authenticate: with --yes the panel "HuggingFace login did not succeed"
\* when access_token is None; return access_token
AuthReturn ==
    /\ auth.pc = "report"
    /\ auth' = [auth EXCEPT
           !.printed = IF auth.yes_to_all /\ auth.access_token = "None"
                       THEN @ \cup {"loginDidNotSucceed"} ELSE @,
           !.ret = auth.access_token,
           !.pc = "returned"]
    /\ UNCHANGED <<fetchVars, Datasets, syncVars, batchVars>>

NextAuth ==
    \/ AuthCheckCache
    \/ AuthEnvVar
    \/ AuthPrompt
    \/ AuthReturn

SpecAuth == InitAuth /\ [][NextAuth]_vars

\* ------------------------------------------------ properties of the fetcher

SuccessStatuses == {StatusOK, 206}

\* the destination held the first k < n bytes of the resource when the last
\* call started, the server honoured the Range header and nothing failed
ResumeCase ==
    /\ last.called /\ last.mkdirOK
    /\ before.exists
    /\ IsPrefix(before.data, RemoteContent(remoteSize))
    /\ Size(before.data) < remoteSize
    /\ last.server = "honour"
    /\ last.fail = "none"

\* C1: resume correctness. For a partial file of k bytes and a resource of
\* n > k bytes on a server that honours ranges, a call in which nothing fails
\* requests the range from k, returns the path and leaves the n bytes of the
\* resource in the file.
C1_ResumeCorrectness ==
    ResumeCase =>
        /\ last.rangeSent /\ last.rangeStart = Size(before.data)
        /\ last.ret = "path"
        /\ file.data = RemoteContent(remoteSize)

\* C2: resume idempotence. A call answered with 416 returns the path, does
\* not open the file and leaves it as it was, however often it is repeated.
C2_ResumeIdempotence ==
    (last.gotResponse /\ last.status = StatusRangeNotSatisfiable) =>
        /\ last.ret = "path"
        /\ ~last.opened
        /\ file = before

C2_Witness ==
    /\ calls >= 3
    /\ last.status = StatusRangeNotSatisfiable
    /\ prevLast.status = StatusRangeNotSatisfiable
    /\ file.data = RemoteContent(remoteSize)
    /\ last.ret = "path"

\* C3: a response whose status is neither a success status nor 416 makes the
\* call report the failure and return None, whatever its content length.
C3_ErrorStatusFails ==
    (/\ last.gotResponse
     /\ last.status \notin SuccessStatuses \cup {StatusRangeNotSatisfiable}
     /\ last.fail # "interrupt") =>
        /\ last.ret = "None"
        /\ last.reported # {}

\* the response advertised a content length below the threshold
SmallLength ==
    last.gotResponse /\ last.hasLength /\ last.contentLength < MinContentLength

\* C4 (as claimed): whenever the response advertises a content length below
\* 2000, the call returns None and the file is neither created nor grown.
C4_AnomalyRejection ==
    SmallLength => (last.ret = "None" /\ file = before)

\* C4 (amended): whenever the response advertises a content length below
\* 2000, the file is neither created nor grown, and the call returns None
\* unless the status is 416, for which it returns the path.
C4_AnomalyRejectionAmended ==
    SmallLength =>
        /\ file = before
        /\ last.status # StatusRangeNotSatisfiable => last.ret = "None"
        /\ last.status = StatusRangeNotSatisfiable => last.ret = "path"

C4_Witness ==
    /\ SmallLength
    /\ last.status = 206
    /\ before.exists /\ Size(before.data) > 0
    /\ last.ret = "None"
    /\ file = before

\* C5: across calls the destination is never truncated and never deleted:
\* once it exists it keeps existing, its size never decreases and its old
\* bytes remain a prefix of the new content.
C5_NeverTruncated ==
    (last.called /\ before.exists) =>
        /\ file.exists
        /\ Size(file.data) >= Size(before.data)
        /\ IsPrefix(before.data, file.data)

C5_Witness ==
    /\ prevLast.fail = "interrupt" /\ prevLast.wrote > 0
    /\ last.streamExc /\ last.wrote > 0
    /\ Size(before.data) > 0
    /\ Size(file.data) > Size(before.data)

\* C6: an exception while streaming makes the call return None and leaves the
\* chunks written so far in the file; the next call resumes from the size the
\* file then has.
C6_StreamException ==
    /\ last.streamExc =>
          /\ last.ret = "None"
          /\ file.exists
          /\ file.data = AppendBytes(before.data,
                            Extent(last.bodySrc, last.bodyOff, last.wrote))
          /\ Size(file.data) = Size(before.data) + last.wrote
    /\ (prevLast.streamExc /\ last.called /\ last.mkdirOK) =>
          /\ last.rangeSent
          /\ last.rangeStart = prevLast.existSize + prevLast.wrote

C6_Witness ==
    /\ prevLast.streamExc /\ prevLast.wrote > 0
    /\ last.called /\ last.rangeSent
    /\ last.rangeStart > prevLast.existSize
    /\ last.ret = "path"

\* -------------------------------------- properties of the synchronizer

\* the document the last pass found, and the one it left
DocBefore == IF diskBefore.cfg.exists THEN Load(diskBefore.cfg) ELSE <<>>

DocAfter == IF disk.cfg.exists THEN Load(disk.cfg) ELSE <<>>

FailedIds(outcomes) ==
    {outcomes[i].id : i \in {j \in 1..Len(outcomes) : outcomes[j].out = "None"}}

SucceededIds(outcomes) ==
    {outcomes[i].id : i \in {j \in 1..Len(outcomes) : outcomes[j].out # "None"}}

SameStanza(id, a, b) ==
    \/ id \notin DocIds(a) /\ id \notin DocIds(b)
    \/ id \in DocIds(a) /\ id \in DocIds(b) /\ StanzaOf(a, id) = StanzaOf(b, id)

\* C9: for an outcome mapping that contains failed ids, the pass completes,
\* adds or changes no stanza for the failed ids and writes the stanzas of the
\* successful ids.
C9_OnlySuccessfulStanzas ==
    (sync.ran /\ FailedIds(sync.outcomes) # {} /\ sync.fail = "none") =>
        /\ ~sync.raised
        /\ sync.created
        /\ \A id \in FailedIds(sync.outcomes) : SameStanza(id, DocBefore, DocAfter)
        /\ \A id \in SucceededIds(sync.outcomes) : id \in DocIds(DocAfter)

\* a pass over N >= 1 outcomes, all successful, that found no registry file
\* and wrote one
FreshPass ==
    /\ sync.created
    /\ ~diskBefore.cfg.exists
    /\ Len(sync.outcomes) >= 1
    /\ FailedIds(sync.outcomes) = {}

\* C10: default uniqueness. After a pass over N >= 1 successful outcomes
\* against an empty starting document exactly one stanza has default = true,
\* the stanza of the first model of the outcomes.
C10_DefaultUniqueness ==
    FreshPass =>
        /\ Cardinality({i \in 1..Len(DocAfter) :
               "default" \in DOMAIN DocAfter[i].stanza
               /\ DocAfter[i].stanza["default"] = "true"}) = 1
        /\ Defaults(DocAfter) = {sync.outcomes[1].id}

C10_Witness ==
    /\ FreshPass
    /\ Len(sync.outcomes) >= 2
    /\ Len(DocAfter) = Len(sync.outcomes)
    /\ Defaults(DocAfter) = {sync.outcomes[1].id}

\* ------------------------------------------------ properties of the batch

\* the failures of hf_download_with_resume the batch is to survive: a
\* non-success status, a connection error when issuing or streaming the
\* request, an uncreatable directory, an unwritable file
FetchFailureCauses == {"status", "connect", "exception", "mkdir", "open"}

\* C7: optimistic continuation. A failure while fetching one model id is
\* recorded as a failure for that id only, and every remaining model id of
\* the batch is still fetched.
C7_OptimisticContinuation ==
    \A i \in 1..Len(fetched) :
        fetched[i].cause \in FetchFailureCauses =>
            /\ i <= Len(successful)
            /\ successful[i] = [id |-> fetched[i].id, out |-> "None"]
            /\ \A j \in 1..Len(successful) :
                  fetched[j].cause = "none" => successful[j].out # "None"
            /\ pc \notin {"batch", "goodbye"} => Len(fetched) = Len(models)

\* the fetch of some selected model ended in failure
SomeFetchFailed ==
    \E i \in 1..Len(fetched) : fetched[i].ret \in {"None", "raise"}

\* C8: when the fetch of a selected model ended in failure, the failure is
\* collected and the summary postscript prints reports errors; the success
\* summary is shown only when every selected model was fetched successfully.
C8_FailureSummary ==
    /\ (pc = "done" /\ SomeFetchFailed) =>
          (AnyErrors(errors) /\ summary = "errors")
    /\ summary = "success" =>
          (~SomeFetchFailed /\ Len(fetched) = Len(models))

\* C11: for a starting document with at most one default stanza and a
\* non-empty outcome set, the document a pass produces has at most one
\* stanza with default = true.
C11_AtMostOneDefault ==
    (/\ sync.created
     /\ Len(sync.outcomes) >= 1
     /\ Cardinality(Defaults(DocBefore)) <= 1) =>
        Cardinality(Defaults(DocAfter)) <= 1

\* C12: when update_config_file is stopped at any point before its final
\* rename, the registry path is unchanged: it still holds the file it held
\* when the pass started, or is still absent.
C12_AtomicWrite ==
    (sync.ran /\ sync.interrupted) => disk.cfg = diskBefore.cfg

\* the I/O operations of the write that can raise
IOErrors == WriteFailures \ {"none"}

\* C13: when an I/O operation of the write raises, update_config_file
\* reports the error and returns without raising, and the document the
\* registry path held when the pass started is still on disk, at the
\* registry path or at its .orig sibling.
C13_WriteErrorReported ==
    (sync.ran /\ sync.fail \in IOErrors) =>
        /\ sync.reported
        /\ ~sync.raised
        /\ ~sync.created
        /\ diskBefore.cfg.exists =>
              (disk.cfg = diskBefore.cfg \/ disk.orig = diskBefore.cfg)

\* a pass failed while writing the temporary file, after the old registry
\* file was renamed to .orig
C13_Witness ==
    /\ sync.ran /\ sync.fail = "write" /\ sync.reported
    /\ diskBefore.cfg.exists
    /\ ~disk.cfg.exists
    /\ disk.orig = diskBefore.cfg

\* two passes in a row that both wrote the registry, with the same outcomes
SamePassTwice ==
    /\ passes = 2
    /\ prevSync.created /\ sync.created
    /\ Len(sync.outcomes) >= 1
    /\ sync.outcomes = prevSync.outcomes

\* C14: registry idempotence. When update_config_file runs twice in a row
\* with the same outcome set, the file the second pass writes equals the
\* file the first pass wrote, and the .orig backup equals the first pass's
\* output.
C14_RegistryIdempotence ==
    SamePassTwice =>
        /\ disk.cfg = diskBefore.cfg
        /\ disk.orig = diskBefore.cfg

\* the second of two equal passes over two models rewrote the same document
C14_Witness ==
    /\ SamePassTwice
    /\ FailedIds(sync.outcomes) = {}
    /\ Len(sync.outcomes) >= 2
    /\ disk.cfg.exists /\ Len(DocAfter) >= 2
    /\ disk.cfg = diskBefore.cfg
    /\ disk.orig = diskBefore.cfg

OutcomeIds(outcomes) == {outcomes[i].id : i \in 1..Len(outcomes)}

\* C15: a pass keeps unchanged every stanza of the existing document whose
\* id is not in the outcome set; when no registry file exists, the result
\* contains stanzas only for the ids of the outcome set.
C15_ForeignStanzasPreserved ==
    sync.created =>
        /\ \A id \in DocIds(DocBefore) \ OutcomeIds(sync.outcomes) :
               SameStanza(id, DocBefore, DocAfter)
        /\ ~diskBefore.cfg.exists =>
               DocIds(DocAfter) \subseteq OutcomeIds(sync.outcomes)

\* a pass over one model kept the stanzas of two other models
C15_Witness ==
    /\ sync.created
    /\ Len(sync.outcomes) >= 1
    /\ Cardinality(DocIds(DocBefore) \ OutcomeIds(sync.outcomes)) >= 2
    /\ \A id \in DocIds(DocBefore) \ OutcomeIds(sync.outcomes) :
           id \in DocIds(DocAfter) /\ StanzaOf(DocAfter, id) = OldStanza
    /\ OutcomeIds(sync.outcomes) \subseteq DocIds(DocAfter)

\* C16: a successful response that carries no content-length header is
\* tolerated: when nothing fails, the call streams the body into the file
\* and returns the path.
C16_MissingLengthTolerated ==
    (/\ last.gotResponse
     /\ last.status \in SuccessStatuses
     /\ ~last.hasLength
     /\ last.fail = "none") =>
        /\ last.ret = "path"
        /\ last.opened
        /\ last.wrote > 0
        /\ Size(file.data) = Size(before.data) + last.wrote

\* the run modes that download at least one model when models are selected
DownloadModes == {"recommended", "all", "customized", "yes"}

\* every selected model was fetched with success and the run went on
AllFetched ==
    /\ Len(models) >= 1
    /\ Len(fetched) = Len(models)
    /\ ~SomeFetchFailed
    /\ pc \notin {"batch", "goodbye"}

\* C17: in every run mode that downloads at least one model (interactive
\* recommended, all and customized, and --yes with a non-empty recommended
\* set), once all the selected models are fetched the synchronizer runs on
\* the collected mapping and the registry file is rewritten; in the mode
\* 'skip' nothing is fetched and the registry is not written.
C17_SynchronizerRuns ==
    /\ (runMode \in DownloadModes /\ AllFetched) =>
          /\ sync.ran
          /\ sync.outcomes = successful
          /\ sync.fail = "none" => (sync.created /\ disk.cfg.exists)
    /\ runMode = "skip" =>
          (fetched = <<>> /\ ~sync.ran /\ disk = diskBefore)

\* C18: the support-model downloads are all attempted, in order: an error
\* raised by one of them does not prevent the following ones, and postscript
\* is reached at the end of every run the user does not interrupt.
C18_SupportDownloadsAllAttempted ==
    /\ (support >= 1 /\ pc # "goodbye") => pc \in {"support", "done"}
    /\ pc = "done" => (support = Len(SupportModels) /\ summary # "none")

\* C19: in authenticate with --yes and no token in the cache, when the login
\* succeeds with a token found in HUGGING_FACE_HUB_TOKEN or
\* HUGGINGFACE_TOKEN the function returns that token (not None) and does
\* not report that the login failed; a token whose login failed is never
\* returned.
C19_EnvTokenReturned ==
    (/\ auth.pc = "returned"
     /\ auth.yes_to_all
     /\ auth.cacheAtStart = "None") =>
        /\ auth.envOk # {} =>
              /\ auth.ret \in auth.envOk
              /\ "loginDidNotSucceed" \notin auth.printed
        /\ auth.ret \notin auth.failed

====
